---- MODULE Spec2Model ----
(***************************************************************************)
(* fontize (install_font): model of src/main.rs.                           *)
(*                                                                         *)
(* One user invocation is a chain of processes: the original process and   *)
(* every process re-executed through sudo.  A process runs main(): the     *)
(* argument check, the source check, do_install (detect_kind,              *)
(* create_dir_all, unique_path, move_across_fs, set_permissions644,        *)
(* refresh_font_cache) and the match on its result, which may call         *)
(* escalate_and_reexec.  Every system call is one step; its outcome is     *)
(* chosen nondeterministically among the results the call can produce.     *)
(* File names are sequences of one-character strings so that the stem and  *)
(* the extension are computed as std::path computes them.                  *)
(***************************************************************************)
EXTENDS Integers, Sequences, FiniteSets, TLC

\* ---------------------------------------------------------------- bounds
\* Largest suffix -i whose candidate may pre-exist in the target directory.
MaxColl == 2
\* Cap on the number of processes of one chain (original + re-executions).
MaxProcs == 3

\* ------------------------------------------------------------- constants
\* A byte that is not valid UTF-8 (OsStr::to_str returns None on it).
BadByte == "0xFF"
\* The argument that selects user mode.
UserFlag == <<"-", "-", "u", "s", "e", "r">>
\* Some other second argument.
OtherArg == <<"-", "v">>

EACCES == 13
EPERM == 1
EXDEV == 18
ENOSPC == 28
EIO == 5
\* raw_os_error() of an error that was not built from an OS code.
NoRaw == 0
\* ExitStatus::code() == None (terminated by a signal).
NoCode == -1
\* No status yet.
Unset == -2
\* Exit code of a Rust process that panicked.
PanicCode == 101
\* rw-r--r--
Mode644 == 420
\* rw-------
Mode600 == 384

\* --------------------------------------------------------------- errors
NoErr == [kind |-> "None", raw |-> NoRaw]

\* io::Error::from_raw_os_error: the kind std decodes from the errno.
OsError(code) ==
    [kind |-> CASE code = EACCES -> "PermissionDenied"
                [] code = EPERM  -> "PermissionDenied"
                [] code = EXDEV  -> "CrossesDevices"
                [] code = ENOSPC -> "StorageFull"
                [] OTHER         -> "Uncategorized",
     raw |-> code]

\* io::Error::new(kind, msg)
CustomError(kind) == [kind |-> kind, raw |-> NoRaw]

is_perm_denied(e) == e.kind = "PermissionDenied" \/ e.raw = EACCES

\* ------------------------------------------------------------ file names
IsUtf8(s) == \A k \in 1..Len(s) : s[k] # BadByte

\* str::to_lowercase on the characters used here.
LowerChar(c) ==
    CASE c = "O" -> "o" [] c = "T" -> "t" [] c = "F" -> "f"
      [] c = "C" -> "c" [] OTHER -> c

to_lowercase(s) == [k \in 1..Len(s) |-> LowerChar(s[k])]

\* Index of the last '.' of a name, 0 when it has none.
LastDot(n) ==
    LET dots == {k \in 1..Len(n) : n[k] = "."}
    IN IF dots = {} THEN 0 ELSE CHOOSE k \in dots : \A j \in dots : j <= k

\* Path::extension: None (here <<"none">>) without a dot or when the only
\* dot is the first character; otherwise the part after the last dot.
HasExtension(n) == LastDot(n) > 1

extension(n) == SubSeq(n, LastDot(n) + 1, Len(n))

\* Path::file_stem: the part before the last dot; the whole name without a
\* dot or when the only dot is the first character.
file_stem(n) == IF HasExtension(n) THEN SubSeq(n, 1, LastDot(n) - 1) ELSE n

\* Decimal digits of a positive integer, as format!("{i}") writes them.
Digit(d) ==
    CASE d = 0 -> "0" [] d = 1 -> "1" [] d = 2 -> "2" [] d = 3 -> "3"
      [] d = 4 -> "4" [] d = 5 -> "5" [] d = 6 -> "6" [] d = 7 -> "7"
      [] d = 8 -> "8" [] OTHER -> "9"

RECURSIVE Decimal(_)
Decimal(i) == IF i < 10 THEN <<Digit(i)>> ELSE Decimal(i \div 10) \o <<Digit(i % 10)>>

\* ----------------------------------------------------------- detect_kind
OTTO == <<79, 84, 84, 79>>
TrueType1 == <<0, 1, 0, 0>>
TrueTag == <<116, 114, 117, 101>>
TtcfTag == <<116, 116, 99, 102>>

\* Result of detect_kind: ok with a kind, or an error.  read is TRUE when
\* the file was opened.  io is the outcome of File::open / read_exact:
\* "ok", "open_denied" or "read_error".
DetectOk(kind, read) == [ok |-> TRUE, kind |-> kind, err |-> NoErr, read |-> read]
DetectErr(e, read) == [ok |-> FALSE, kind |-> "none", err |-> e, read |-> read]

\* Variant: the signature "true" is not recognized.
sniff_magic_without_true(data, io) ==
    IF io = "open_denied" THEN DetectErr(OsError(EACCES), FALSE)
    ELSE IF io = "read_error" THEN DetectErr(OsError(EIO), TRUE)
    ELSE IF Len(data) < 4 THEN DetectErr(CustomError("UnexpectedEof"), TRUE)
    ELSE LET magic == SubSeq(data, 1, 4) IN
         IF magic = OTTO THEN DetectOk("Otf", TRUE)
         ELSE IF magic = TrueType1 \/ magic = TtcfTag
              THEN DetectOk("Ttf", TRUE)
         ELSE DetectErr(CustomError("InvalidData"), TRUE)

\* Variant: an unknown signature is taken for TrueType.
sniff_magic_default_ttf(data, io) ==
    IF io = "open_denied" THEN DetectErr(OsError(EACCES), FALSE)
    ELSE IF io = "read_error" THEN DetectErr(OsError(EIO), TRUE)
    ELSE IF Len(data) < 4 THEN DetectErr(CustomError("UnexpectedEof"), TRUE)
    ELSE LET magic == SubSeq(data, 1, 4) IN
         IF magic = OTTO THEN DetectOk("Otf", TRUE)
         ELSE DetectOk("Ttf", TRUE)

\* detect_kind, the fallback: File::open, read_exact of 4 bytes and the
\* comparison with the signatures (lines 21-32).
sniff_magic(data, io) ==
    IF io = "open_denied" THEN DetectErr(OsError(EACCES), FALSE)
    ELSE IF io = "read_error" THEN DetectErr(OsError(EIO), TRUE)
    ELSE IF Len(data) < 4 THEN DetectErr(CustomError("UnexpectedEof"), TRUE)
    ELSE LET magic == SubSeq(data, 1, 4) IN
         IF magic = OTTO THEN DetectOk("Otf", TRUE)
         ELSE IF magic = TrueType1 \/ magic = TrueTag \/ magic = TtcfTag
              THEN DetectOk("Ttf", TRUE)
         ELSE DetectErr(CustomError("InvalidData"), TRUE)

\* Variant: the extension is compared without to_lowercase.
detect_kind_case_sensitive(name, data, io) ==
    IF HasExtension(name) /\ IsUtf8(extension(name))
    THEN LET ext == extension(name) IN
         IF ext = <<"o", "t", "f">> THEN DetectOk("Otf", FALSE)
         ELSE IF ext = <<"t", "t", "f">> \/ ext = <<"t", "t", "c">>
              THEN DetectOk("Ttf", FALSE)
         ELSE sniff_magic(data, io)
    ELSE sniff_magic(data, io)

detect_kind(name, data, io) ==
    IF HasExtension(name) /\ IsUtf8(extension(name))
    THEN LET ext == to_lowercase(extension(name)) IN
         IF ext = <<"o", "t", "f">> THEN DetectOk("Otf", FALSE)
         ELSE IF ext = <<"t", "t", "f">> \/ ext = <<"t", "t", "c">>
              THEN DetectOk("Ttf", FALSE)
         ELSE sniff_magic(data, io)
    ELSE sniff_magic(data, io)

\* ------------------------------------------------------------ unique_path
FontStem == <<"f", "o", "n", "t">>

\* dest.file_stem().and_then(to_str).unwrap_or("font")
StemStr(n) == IF IsUtf8(file_stem(n)) THEN file_stem(n) ELSE FontStem

\* dest.extension().and_then(to_str).unwrap_or("")
ExtStr(n) == IF HasExtension(n) /\ IsUtf8(extension(n)) THEN extension(n) ELSE <<>>

\* Variant: the suffixes start at 2.
candidateFromTwo(n, i) ==
    IF ExtStr(n) = <<>>
    THEN StemStr(n) \o <<"-">> \o Decimal(i + 1)
    ELSE StemStr(n) \o <<"-">> \o Decimal(i + 1) \o <<".">> \o ExtStr(n)

\* The i-th candidate of the suffix search for the name n.
candidate(n, i) ==
    IF ExtStr(n) = <<>>
    THEN StemStr(n) \o <<"-">> \o Decimal(i)
    ELSE StemStr(n) \o <<"-">> \o Decimal(i) \o <<".">> \o ExtStr(n)

\* ----------------------------------------------------------------- state
VARIABLES
    args,        \* env::args().skip(1) of the invocation
    srcName,     \* name of the font file on disk
    srcData,     \* its first bytes
    srcMode,     \* its permission bits
    srcPresent,  \* the file still exists at its original path
    dirExists,   \* the target directory <base>/<OTF|TTF> exists
    files,       \* target directory: name -> [data, mode]
    env,         \* XDG_DATA_HOME and HOME of the invocation
    fs0,         \* the file system when the invocation started
    procs,       \* the chain of processes, procs[1] the original one
    launches,    \* number of sudo processes started
    cacheRuns    \* number of fc-cache invocations attempted

inputs == <<args, srcName, srcData, srcMode, env, fs0>>
vars == <<args, srcName, srcData, srcMode, srcPresent, dirExists, files, env, fs0,
          procs, launches, cacheRuns>>

\* -------------------------------------------------------- input universes
SrcNames ==
    { <<"a", ".", "t", "t", "f">>,
      <<"a", ".", "O", "t", "F">>,
      <<BadByte, ".", "T", "T", "C">>,
      <<"a">>,
      <<"a", ".">>,
      <<".", "a">>,
      <<"a", ".", "x">>,
      <<"a", ".", BadByte>> }

Contents ==
    { OTTO \o <<0>>, TrueType1, TrueTag \o <<0, 0>>, TtcfTag,
      <<79, 84, 84, 0, 79>>, <<79, 84, 84>> }

ArgLists(n) ==
    { <<>>, <<n>>, <<n, UserFlag>>, <<UserFlag, n>>, <<n, OtherArg>>,
      <<n, UserFlag, OtherArg>> }

\* env::var_os returned None.  Paths are sequences of components.  The
\* environment is varied for the invocations that read it, those with
\* --user; the others start with FullEnv.
NotSet == <<"(unset)">>
FullEnv == [xdg |-> <<"/", "tmp", "x">>, home |-> <<"/", "home", "u">>]
Envs ==
    { FullEnv,
      [xdg |-> NotSet, home |-> <<"/", "home", "u">>],
      [xdg |-> NotSet, home |-> NotSet] }

\* Names that may pre-exist in the target directory.
Universe(n) == {n} \cup {candidate(n, i) : i \in 1..MaxColl}

OldFile == [data |-> "old", mode |-> Mode644]

\* A process record.  pc is the position in main; err the error do_install
\* returned and eerr the one escalate_and_reexec returned; exit the exit
\* code; status the status of the sudo it ran.  For the properties: read
\* (detect_kind opened the file), at (the names unique_path saw), dir (the
\* dest_dir do_install computed), rerr (the error of fs::rename), via (how
\* the move was done), cache (outcome of fc-cache), launched (sudo started).
NewProc(marker) ==
    [pc |-> "start", marker |-> marker, kind |-> "none", dest |-> <<>>,
     i |-> 0, err |-> NoErr, exit |-> Unset, status |-> Unset,
     launched |-> FALSE, read |-> FALSE, at |-> {}, eerr |-> NoErr,
     via |-> "none", cache |-> "none", dir |-> <<>>, rerr |-> NoErr]

Init ==
    /\ srcName \in SrcNames
    /\ srcData \in Contents
    /\ srcMode = Mode600
    /\ srcPresent \in BOOLEAN
    /\ args \in ArgLists(srcName)
    /\ dirExists \in BOOLEAN
    /\ \E S \in SUBSET Universe(srcName) :
          /\ (~dirExists => S = {})
          /\ files = [n \in S |-> OldFile]
    /\ env \in Envs
    /\ (\A k \in 1..Len(args) : args[k] # UserFlag) => env = FullEnv
    /\ fs0 = [files |-> files, dir |-> dirExists, src |-> srcPresent]
    /\ \E m \in BOOLEAN : procs = <<NewProc(m)>>
    /\ launches = 0
    /\ cacheRuns = 0

\* ------------------------------------------------------------- processes
Exited(p) == p.pc \in {"exited", "killed"}

\* The running process: the deepest one of the chain that has not ended
\* (a parent blocks in Command::status while its child runs); 0 when all
\* have ended.
Active ==
    LET live == {k \in 1..Len(procs) : ~Exited(procs[k])}
    IN IF live = {} THEN 0 ELSE CHOOSE k \in live : \A j \in live : j <= k

Cur == procs[Active]

user_mode == \E k \in 1..Len(args) : args[k] = UserFlag
src_path == args[1]
\* src_path.exists() && src_path.is_file()
SrcExists == srcPresent /\ src_path = srcName

SetCur(p) == procs' = [procs EXCEPT ![Active] = p]
Exit(code) == SetCur([Cur EXCEPT !.pc = "exited", !.exit = code])
Fail(e) == SetCur([Cur EXCEPT !.pc = "failed", !.err = e])
Goto(pc) == SetCur([Cur EXCEPT !.pc = pc])

At(pc) == Active > 0 /\ Cur.pc = pc

\* ------------------------------------------------------------------ main
\* Variant: the usage test accepts three arguments.
MainStartAllowsThree ==
    /\ At("start")
    /\ IF \E k \in 1..Len(args) : ~IsUtf8(args[k]) THEN Exit(PanicCode)
       ELSE IF Len(args) = 0 \/ Len(args) > 3 THEN Exit(2)
       ELSE IF ~SrcExists THEN Exit(1)
       ELSE Goto("detect")
    /\ UNCHANGED <<inputs, srcPresent, dirExists, files, launches, cacheRuns>>

\* main, up to the call of do_install: env::args() panics on an argument
\* that is not valid Unicode; then argument count, then source check.
MainStart ==
    /\ At("start")
    /\ IF \E k \in 1..Len(args) : ~IsUtf8(args[k]) THEN Exit(PanicCode)
       ELSE IF Len(args) = 0 \/ Len(args) > 2 THEN Exit(2)
       ELSE IF ~SrcExists THEN Exit(1)
       ELSE Goto("detect")
    /\ UNCHANGED <<inputs, srcPresent, dirExists, files, launches, cacheRuns>>

\* ------------------------------------------------------------ do_install
\* let kind = detect_kind(src_path)?;
Detect ==
    /\ At("detect")
    /\ \E io \in {"ok", "open_denied", "read_error"} :
          LET r == detect_kind(src_path, srcData, io) IN
          IF r.ok
          THEN SetCur([Cur EXCEPT !.pc = "mkdir", !.kind = r.kind, !.read = r.read])
          ELSE SetCur([Cur EXCEPT !.pc = "failed", !.err = r.err, !.read = r.read])
    /\ UNCHANGED <<inputs, srcPresent, dirExists, files, launches, cacheRuns>>

\* Variant: HOME is consulted before XDG_DATA_HOME.
user_fonts_base_home_first ==
    IF env.home # NotSet THEN env.home \o <<".local", "share", "fonts">>
    ELSE IF env.xdg # NotSet THEN env.xdg \o <<"fonts">>
    ELSE <<".local", "share", "fonts">>

user_fonts_base ==
    IF env.xdg # NotSet THEN env.xdg \o <<"fonts">>
    ELSE IF env.home # NotSet THEN env.home \o <<".local", "share", "fonts">>
    ELSE <<".local", "share", "fonts">>

\* do_install: base_dir, subdir and dest_dir (lines 125-135).
base_dir == IF user_mode THEN user_fonts_base ELSE <<"/", "usr", "share", "fonts">>
subdir(kind) == IF kind = "Otf" THEN "OTF" ELSE "TTF"
dest_dir(kind) == base_dir \o <<subdir(kind)>>

\* fs::create_dir_all(&dest_dir)?;  An existing directory is not an error.
\* files and dirExists describe the directory dest_dir.
CreateDirAll ==
    /\ At("mkdir")
    /\ \E out \in {0, EACCES, ENOSPC} :
          IF out = 0
          THEN /\ dirExists' = TRUE
               /\ SetCur([Cur EXCEPT !.pc = "resolve", !.dir = dest_dir(Cur.kind)])
          ELSE /\ out = ENOSPC => ~dirExists
               /\ dirExists' = dirExists
               /\ SetCur([Cur EXCEPT !.pc = "failed", !.err = OsError(out),
                                       !.dir = dest_dir(Cur.kind)])
    /\ UNCHANGED <<inputs, srcPresent, files, launches, cacheRuns>>

\* Path::exists on a path of the target directory.
PathExists(fs, n) == n \in DOMAIN fs

\* unique_path, the test of the proposed destination (lines 36-38).
UniquePathFirst ==
    /\ At("resolve")
    /\ IF ~PathExists(files, src_path)
       THEN SetCur([Cur EXCEPT !.pc = "move", !.dest = src_path,
                               !.at = DOMAIN files])
       ELSE SetCur([Cur EXCEPT !.pc = "probe", !.i = 1, !.at = DOMAIN files])
    /\ UNCHANGED <<inputs, srcPresent, dirExists, files, launches, cacheRuns>>

\* Variant: the loop reserves the path it returns by creating it.
UniquePathNextReserves ==
    /\ At("probe")
    /\ LET c == candidate(src_path, Cur.i) IN
       IF ~PathExists(files, c)
       THEN /\ SetCur([Cur EXCEPT !.pc = "move", !.dest = c])
            /\ files' = [m \in DOMAIN files \cup {c} |->
                            IF m = c THEN [data |-> "old", mode |-> Mode644]
                            ELSE files[m]]
       ELSE /\ SetCur([Cur EXCEPT !.i = Cur.i + 1])
            /\ files' = files
    /\ UNCHANGED <<inputs, srcPresent, dirExists, launches, cacheRuns>>

\* Variant: the loop tests the same candidate again.
UniquePathNextStuck ==
    /\ At("probe")
    /\ LET c == candidate(src_path, Cur.i) IN
       IF ~PathExists(files, c)
       THEN SetCur([Cur EXCEPT !.pc = "move", !.dest = c])
       ELSE SetCur([Cur EXCEPT !.i = Cur.i])
    /\ UNCHANGED <<inputs, srcPresent, dirExists, files, launches, cacheRuns>>

\* unique_path, one iteration of the suffix loop (lines 41-50).
UniquePathNext ==
    /\ At("probe")
    /\ LET c == candidate(src_path, Cur.i) IN
       IF ~PathExists(files, c)
       THEN SetCur([Cur EXCEPT !.pc = "move", !.dest = c])
       ELSE SetCur([Cur EXCEPT !.i = Cur.i + 1])
    /\ UNCHANGED <<inputs, srcPresent, dirExists, files, launches, cacheRuns>>

\* The font, complete, with the mode it had at the source.
FontFile == [data |-> "font", mode |-> srcMode]
PartialFile == [data |-> "partial", mode |-> srcMode]

Put(fs, n, f) == [m \in DOMAIN fs \cup {n} |-> IF m = n THEN f ELSE fs[m]]

\* Variant: the fallback is also taken when the rename was denied.
IsCrossDeviceOrDenied(e) == e.raw = EXDEV \/ e.raw = EACCES

\* move_across_fs: the rename failed because of a cross-device move.
IsCrossDevice(e) == e.raw = EXDEV

\* move_across_fs: fs::rename(src, dst) and the match on its result.
Rename ==
    /\ At("move")
    /\ \E out \in {0, EXDEV, EACCES, ENOSPC} :
          IF out = 0
          THEN /\ files' = Put(files, Cur.dest, FontFile)
               /\ srcPresent' = FALSE
               /\ SetCur([Cur EXCEPT !.pc = "chmod", !.via = "rename"])
          ELSE /\ UNCHANGED <<files, srcPresent>>
               /\ IF IsCrossDevice(OsError(out))
                  THEN SetCur([Cur EXCEPT !.pc = "copy", !.rerr = OsError(out)])
                  ELSE SetCur([Cur EXCEPT !.pc = "failed", !.err = OsError(out),
                                          !.rerr = OsError(out)])
    /\ UNCHANGED <<inputs, dirExists, launches, cacheRuns>>

\* Variant: the result of fs::copy is dropped.
CopyIgnoresError ==
    /\ At("copy")
    /\ \E out \in {0, EACCES, ENOSPC} :
          /\ files' = IF out = 0 THEN Put(files, Cur.dest, FontFile)
                       ELSE IF out = ENOSPC THEN Put(files, Cur.dest, PartialFile)
                       ELSE files
          /\ Goto("remove")
    /\ UNCHANGED <<inputs, srcPresent, dirExists, launches, cacheRuns>>

\* move_across_fs: fs::copy(src, dst)?;  A copy that fails after the
\* destination was created leaves a truncated file there.
Copy ==
    /\ At("copy")
    /\ \E out \in {0, EACCES, ENOSPC} :
          IF out = 0
          THEN /\ files' = Put(files, Cur.dest, FontFile)
               /\ Goto("remove")
          ELSE /\ files' = IF out = ENOSPC
                           THEN Put(files, Cur.dest, PartialFile) ELSE files
               /\ Fail(OsError(out))
    /\ UNCHANGED <<inputs, srcPresent, dirExists, launches, cacheRuns>>

\* Variant: the fallback copies and does not delete the source.
RemoveFileKeepsSource ==
    /\ At("remove")
    /\ \E out \in {0, EACCES} :
          IF out = 0
          THEN /\ srcPresent' = srcPresent
               /\ SetCur([Cur EXCEPT !.pc = "chmod", !.via = "copy"])
          ELSE /\ srcPresent' = srcPresent
               /\ Fail(OsError(out))
    /\ UNCHANGED <<inputs, dirExists, files, launches, cacheRuns>>

\* move_across_fs: fs::remove_file(src)?;
RemoveFile ==
    /\ At("remove")
    /\ \E out \in {0, EACCES} :
          IF out = 0
          THEN /\ srcPresent' = FALSE
               /\ SetCur([Cur EXCEPT !.pc = "chmod", !.via = "copy"])
          ELSE /\ srcPresent' = srcPresent
               /\ Fail(OsError(out))
    /\ UNCHANGED <<inputs, dirExists, files, launches, cacheRuns>>

\* Variant: the result of set_permissions644 is dropped.
SetPermissions644BestEffort ==
    /\ At("chmod")
    /\ \E out \in {0, EIO, EPERM} :
          /\ files' = IF out = 0 THEN [files EXCEPT ![Cur.dest].mode = Mode644]
                       ELSE files
          /\ Goto("print")
    /\ UNCHANGED <<inputs, srcPresent, dirExists, launches, cacheRuns>>

\* set_permissions644(&dest_path)?;  fs::metadata or fs::set_permissions
\* may fail.
SetPermissions644 ==
    /\ At("chmod")
    /\ \E out \in {0, EIO, EPERM} :
          IF out = 0
          THEN /\ files' = [files EXCEPT ![Cur.dest].mode = Mode644]
               /\ Goto("print")
          ELSE /\ files' = files
               /\ Fail(OsError(out))
    /\ UNCHANGED <<inputs, srcPresent, dirExists, launches, cacheRuns>>

\* Variant: a failed refresh is returned as an error.
refresh_font_cache_strict(out) ==
    IF out = "success" THEN NoErr ELSE CustomError("Other")

\* refresh_font_cache: every outcome of fc-cache ends in a return without
\* an error ("success", "nonzero" status, or "notfound").
refresh_font_cache(out) == NoErr

\* println!("Installed ..."); refresh_font_cache(); Ok(())
RefreshFontCache ==
    /\ At("print")
    /\ \E out \in {"success", "nonzero", "notfound"} :
          LET e == refresh_font_cache(out) IN
          IF e = NoErr
          THEN SetCur([Cur EXCEPT !.pc = "ok", !.cache = out])
          ELSE SetCur([Cur EXCEPT !.pc = "failed", !.err = e, !.cache = out])
    /\ cacheRuns' = cacheRuns + 1
    /\ UNCHANGED <<inputs, srcPresent, dirExists, files, launches>>

\* ------------------------------------------------------ main, the match
\* Variant: the match arm does not test the mode.
ShouldEscalateAnyMode(e, um) == is_perm_denied(e)

\* The arm of main's match that calls escalate_and_reexec.
ShouldEscalate(e, um) == is_perm_denied(e) /\ ~um

MainMatch ==
    /\ At("ok") \/ At("failed")
    /\ IF Cur.pc = "ok" THEN Exit(0)
       ELSE IF ShouldEscalate(Cur.err, user_mode) THEN Goto("escalate")
       ELSE Exit(1)
    /\ UNCHANGED <<inputs, srcPresent, dirExists, files, launches, cacheRuns>>

\* Variant: the command is started without the marker.
ChildMarkerUnset == FALSE

\* escalate_and_reexec: .env("INSTALL_FONT_ELEVATED", "1") on the command;
\* the re-executed process is taken to see the variable sudo was given.
ChildMarker == TRUE

\* Variant: escalate_and_reexec without the guard.
NeverElevated(p) == FALSE

\* escalate_and_reexec: the guard on INSTALL_FONT_ELEVATED.
AlreadyElevated(p) == p.marker

\* escalate_and_reexec.  env::current_exe may fail ("exe_error"), sudo may
\* fail to start ("spawn_error"), sudo may start and refuse to run the
\* command ("refused", status 1), or run it ("run") with the marker set in
\* its environment.  Every Err makes main return it: exit code 1.
Escalate ==
    /\ At("escalate")
    /\ IF AlreadyElevated(Cur)
       THEN /\ SetCur([Cur EXCEPT !.pc = "exited", !.exit = 1,
                                  !.eerr = CustomError("PermissionDenied")])
            /\ launches' = launches
       ELSE \E out \in {"exe_error", "spawn_error", "refused", "run"} :
               CASE out = "exe_error" ->
                      /\ SetCur([Cur EXCEPT !.pc = "exited", !.exit = 1,
                                            !.eerr = OsError(EIO)])
                      /\ launches' = launches
                 [] out = "spawn_error" ->
                      /\ SetCur([Cur EXCEPT !.pc = "exited", !.exit = 1,
                                            !.eerr = CustomError("Other")])
                      /\ launches' = launches
                 [] out = "refused" ->
                      /\ SetCur([Cur EXCEPT !.pc = "wait", !.launched = TRUE,
                                            !.status = 1])
                      /\ launches' = launches + 1
                 [] out = "run" ->
                      /\ Len(procs) < MaxProcs
                      /\ procs' = Append(
                            [procs EXCEPT ![Active] =
                                [Cur EXCEPT !.pc = "wait", !.launched = TRUE]],
                            NewProc(ChildMarker))
                      /\ launches' = launches + 1
    /\ UNCHANGED <<inputs, srcPresent, dirExists, files, cacheRuns>>

\* Variant: the status of sudo is dropped and main returns Ok(()).
WaitStatusReturnsOk ==
    /\ At("wait")
    /\ LET st == IF Cur.status # Unset THEN Cur.status
                 ELSE procs[Active + 1].exit
       IN SetCur([Cur EXCEPT !.pc = "exited", !.status = st, !.exit = 0])
    /\ UNCHANGED <<inputs, srcPresent, dirExists, files, launches, cacheRuns>>

\* Ok(s) => std::process::exit(s.code().unwrap_or(1)): sudo's status is the
\* exit code of the command it ran, or carries no code after a signal.
WaitStatus ==
    /\ At("wait")
    /\ LET st == IF Cur.status # Unset THEN Cur.status
                 ELSE procs[Active + 1].exit
       IN SetCur([Cur EXCEPT !.pc = "exited", !.status = st,
                             !.exit = IF st = NoCode THEN 1 ELSE st])
    /\ UNCHANGED <<inputs, srcPresent, dirExists, files, launches, cacheRuns>>

\* The elevated command is killed by a signal: its status has no code.
Killed ==
    /\ Active >= 2
    /\ SetCur([Cur EXCEPT !.pc = "killed", !.exit = NoCode])
    /\ UNCHANGED <<inputs, srcPresent, dirExists, files, launches, cacheRuns>>

Next ==
    \/ MainStart
    \/ Detect
    \/ CreateDirAll
    \/ UniquePathFirst
    \/ UniquePathNext
    \/ Rename
    \/ Copy
    \/ RemoveFile
    \/ SetPermissions644
    \/ RefreshFontCache
    \/ MainMatch
    \/ Escalate
    \/ WaitStatus
    \/ Killed

Spec == Init /\ [][Next]_vars

\* The processes are sequential programs that run until they exit, and the
\* external tools return: some step is always taken while one is possible.
\* The inputs are a part of those of Init: two names, two contents, one
\* environment.
LiveInit ==
    /\ Init
    /\ srcName \in { <<"a", ".", "t", "t", "f">>, <<"a">> }
    /\ srcData \in { TrueType1, <<79, 84, 84, 0, 79>> }
    /\ env = FullEnv

FairSpec == LiveInit /\ [][Next]_vars /\ WF_vars(Next)

\* ============================================================ properties
Procs == 1..Len(procs)
\* The process returned from main or called process::exit.
Ended(p) == p.pc = "exited"
\* do_install of the process returned a permission-denied error.
PermFailed(p) == p.err # NoErr /\ is_perm_denied(p.err)
\* The process has passed the point where it may launch sudo.
Decided(p) == p.pc \in {"wait", "exited"}

\* C1: over the whole chain of processes of one invocation the elevation
\* tool is started at most once, and the chain has at most one re-executed
\* process, whatever step fails.
C1_ElevationAtMostOnce ==
    /\ launches <= 1
    /\ Len(procs) <= 2
    /\ \A k \in Procs : k >= 2 => procs[k].marker /\ ~procs[k].launched

\* C1 witness: the elevated process failed with permission denied again and
\* ended on the guard, after exactly one launch.
C1_Witness ==
    /\ launches = 1
    /\ Len(procs) = 2
    /\ Ended(procs[2])
    /\ PermFailed(procs[2])
    /\ procs[2].eerr = CustomError("PermissionDenied")

\* The three conditions of the escalation.
EscalationCondition(p) == PermFailed(p) /\ ~user_mode /\ ~p.marker

\* C2 as stated: a process launches the elevation tool if and only if its
\* pipeline failed with permission denied, the request is system-mode and
\* the marker is not set.
C2_Original ==
    \A k \in Procs :
        Decided(procs[k]) => (procs[k].launched <=> EscalationCondition(procs[k]))

\* C2 amended: the tool is launched only if the three conditions hold, and
\* when they hold it is launched unless env::current_exe fails or sudo
\* cannot be started (escalate_and_reexec then returns an error).
C2_LaunchIffConditionAndNoError ==
    \A k \in Procs :
        /\ procs[k].launched => EscalationCondition(procs[k])
        /\ Decided(procs[k]) =>
              (procs[k].launched <=>
                  EscalationCondition(procs[k]) /\ procs[k].eerr = NoErr)

\* C2 witness: the three conditions hold and the tool was launched, after a
\* failure whose kind is permission denied but whose code is not 13.
C2_Witness ==
    /\ procs[1].launched
    /\ procs[1].err = OsError(EPERM)
    /\ ~user_mode
    /\ ~procs[1].marker

\* C3: in system mode, when the unprivileged attempt and the elevated retry
\* both fail with permission denied, the elevated process exits with code 1
\* without launching the elevation tool, and the original process then
\* exits with code 1.
C3_SecondDenialExitsOne ==
    \A k \in Procs :
        (k >= 2 /\ PermFailed(procs[k - 1]) /\ PermFailed(procs[k]) /\ ~user_mode) =>
            /\ ~procs[k].launched
            /\ Len(procs) = k
            /\ Ended(procs[k]) => procs[k].exit = 1
            /\ Ended(procs[k - 1]) => procs[k - 1].exit = 1

\* C3 witness: both processes ended with code 1 after two permission
\* failures.
C3_Witness ==
    /\ Len(procs) = 2
    /\ PermFailed(procs[1]) /\ PermFailed(procs[2])
    /\ Ended(procs[1]) /\ procs[1].exit = 1
    /\ Ended(procs[2]) /\ procs[2].exit = 1

\* C4: once a process has launched the elevation tool it performs no
\* pipeline step (no mkdir, move, chmod, cache refresh, second launch), and
\* it ends with the exit code of the tool's status, which is the exit code
\* of the elevated process, or with 1 when the status carries no code.
C4_ParentOnlyPropagates ==
    /\ [](\A k \in Procs :
            procs[k].launched =>
              /\ procs[k].pc \in {"wait", "exited"}
              /\ Ended(procs[k]) =>
                    /\ procs[k].exit = IF procs[k].status = NoCode THEN 1
                                       ELSE procs[k].status
                    /\ k < Len(procs) => procs[k].status = procs[k + 1].exit)
    /\ [][\A k \in Procs :
            (procs[k].launched /\ Active = k) =>
                UNCHANGED <<srcPresent, dirExists, files, cacheRuns, launches>>]_vars

\* C4 witness: the elevated process was killed by a signal and its parent
\* ended with code 1.
C4_Witness ==
    /\ Len(procs) = 2
    /\ procs[2].pc = "killed"
    /\ procs[1].launched
    /\ Ended(procs[1])
    /\ procs[1].status = NoCode
    /\ procs[1].exit = 1

\* C5: whenever a process of the invocation ends with exit code 0, the
\* source file no longer exists at its original path and the font exists,
\* complete, at the destination resolved by the process that installed it,
\* whether it was moved by rename or by copy and delete.
C5_SuccessMeansMoved ==
    \A k \in Procs :
        (Ended(procs[k]) /\ procs[k].exit = 0) =>
            /\ ~srcPresent
            /\ \E j \in k..Len(procs) :
                  /\ procs[j].via \in {"rename", "copy"}
                  /\ procs[j].dest \in DOMAIN files
                  /\ files[procs[j].dest].data = "font"

\* C5 witness: exit code 0 after one escalation, the elevated process
\* having moved the font by copy and delete.
C5_Witness ==
    /\ Len(procs) = 2
    /\ Ended(procs[1]) /\ procs[1].exit = 0
    /\ procs[2].via = "copy"
    /\ ~srcPresent

\* r is the first path that does not exist in fs, in the order n,
\* C(n, 1), C(n, 2), ...
FirstFree(fs, n, C(_, _), r) ==
    /\ r \notin fs
    /\ \/ r = n
       \/ /\ n \in fs
          /\ \E i \in 1..(Cardinality(fs) + 1) :
                /\ r = C(n, i)
                /\ \A j \in 1..(i - 1) : C(n, j) \in fs

\* The candidate as the claim words it: stem-i.ext, and stem-i when the
\* name has no extension.
ClaimCandidate(n, i) ==
    IF HasExtension(n) /\ extension(n) # <<>>
    THEN file_stem(n) \o <<"-">> \o Decimal(i) \o <<".">> \o extension(n)
    ELSE file_stem(n) \o <<"-">> \o Decimal(i)

\* unique_path has returned and the move has not started.
Resolved(p) == p.pc = "move"

\* C6: unique_path returns a path that does not exist at the time of
\* resolution, the first one in the order name, stem-1.ext, stem-2.ext, ...
\* (stem-i when the name has no extension): with name, stem-1.ext, ...,
\* stem-(N-1).ext pre-existing the result is stem-N.ext.
C6_FirstFreeCandidate ==
    \A k \in Procs :
        Resolved(procs[k]) =>
            /\ procs[k].dest \notin DOMAIN files
            /\ FirstFree(DOMAIN files, src_path, ClaimCandidate, procs[k].dest)
            /\ \A N \in 1..(MaxColl + 1) :
                  DOMAIN files = {src_path} \cup {ClaimCandidate(src_path, i) : i \in 1..(N - 1)}
                      => procs[k].dest = ClaimCandidate(src_path, N)
            /\ (src_path = <<"a", ".", "t", "t", "f">>
                  /\ DOMAIN files = {src_path, <<"a", "-", "1", ".", "t", "t", "f">>})
                      => procs[k].dest = <<"a", "-", "2", ".", "t", "t", "f">>

\* C6 witness: a.ttf and a-1.ttf pre-exist and a-2.ttf was returned.
C6_Witness ==
    /\ Resolved(procs[1])
    /\ procs[1].i = 2
    /\ DOMAIN files = {src_path, <<"a", "-", "1", ".", "t", "t", "f">>}
    /\ procs[1].dest = <<"a", "-", "2", ".", "t", "t", "f">>

\* C7: resolution has no side effect: every step of unique_path leaves the
\* file system as it is, and two resolutions of the same name against the
\* same set of existing files return the same path.
C7_ResolutionIsReadOnly ==
    /\ [](\A j, k \in Procs :
            (procs[j].dest # <<>> /\ procs[k].dest # <<>>
                /\ procs[j].at = procs[k].at) => procs[j].dest = procs[k].dest)
    /\ [][(At("resolve") \/ At("probe")) =>
            UNCHANGED <<files, dirExists, srcPresent>>]_vars

\* C7 witness: two processes resolved the same colliding name, the move of
\* the first having failed before it changed anything.
C7_Witness ==
    /\ Len(procs) = 2
    /\ procs[1].dest # <<>> /\ procs[2].dest # <<>>
    /\ procs[1].at = procs[2].at
    /\ procs[1].i >= 1
    /\ procs[1].dest = procs[2].dest

KnownExtensions == { <<"o", "t", "f">>, <<"t", "t", "f">>, <<"t", "t", "c">> }
KnownExt(n) ==
    /\ HasExtension(n)
    /\ IsUtf8(extension(n))
    /\ to_lowercase(extension(n)) \in KnownExtensions
KnownMagic(d) ==
    Len(d) >= 4 /\ SubSeq(d, 1, 4) \in {OTTO, TrueType1, TrueTag, TtcfTag}
\* The invocation reaches do_install: one or two arguments, all valid
\* Unicode, the first one naming the font file, which exists.
RunsPipeline ==
    /\ Len(args) \in {1, 2}
    /\ \A k \in 1..Len(args) : IsUtf8(args[k])
    /\ src_path = srcName
    /\ fs0.src
FsUnchanged ==
    /\ files = fs0.files
    /\ dirExists = fs0.dir
    /\ srcPresent = fs0.src
    /\ cacheRuns = 0

DetectFailed(p) == p.kind = "none" /\ p.err # NoErr

\* C9 as stated: whenever detect_kind returns an error, in user mode and in
\* system mode, the process ends with a non-zero exit code without
\* launching the elevation tool.
C9_DetectFailureNeverEscalates ==
    \A k \in Procs :
        DetectFailed(procs[k]) =>
            /\ ~procs[k].launched
            /\ procs[k].pc # "escalate"
            /\ Ended(procs[k]) => procs[k].exit # 0

\* The move and the permission normalization of the process succeeded.
Installed(p) ==
    /\ p.via \in {"rename", "copy"}
    /\ p.dest \in DOMAIN files
    /\ files[p.dest] = [data |-> "font", mode |-> Mode644]
    /\ ~srcPresent

\* C10: the cache tool is invoked only after the move and the permission
\* normalization succeeded, and whatever its outcome do_install returns no
\* error, the process ends with exit code 0, as does the process that
\* launched it, and the installed file stays in place.
C10_CacheOutcomeIsIgnored ==
    /\ cacheRuns <= 1
    /\ \A k \in Procs :
          procs[k].cache # "none" =>
              /\ cacheRuns = 1
              /\ Installed(procs[k])
              /\ procs[k].err = NoErr
              /\ procs[k].pc \in {"ok", "exited", "killed"}
              /\ Ended(procs[k]) => procs[k].exit = 0
              /\ (k >= 2 /\ Ended(procs[k]) /\ Ended(procs[k - 1]))
                    => procs[k - 1].exit = 0
    /\ \A k \in Procs : procs[k].pc = "print" => Installed(procs[k])

\* C10 witness: fc-cache returned a non-zero status in the elevated process
\* and both processes ended with exit code 0.
C10_Witness ==
    /\ Len(procs) = 2
    /\ procs[2].cache = "nonzero"
    /\ Ended(procs[2]) /\ procs[2].exit = 0
    /\ Ended(procs[1]) /\ procs[1].exit = 0
    /\ Installed(procs[2])

\* The argument count main rejects.
BadArgCount == Len(args) = 0 \/ Len(args) > 2
AllUnicode == \A k \in 1..Len(args) : IsUtf8(args[k])
\* The process has not gone past the checks at the start of main.
NoPipelineStep(p) ==
    /\ p.pc \in {"start", "exited"}
    /\ p.kind = "none" /\ ~p.read /\ p.err = NoErr
    /\ p.dest = <<>> /\ p.via = "none" /\ p.cache = "none" /\ ~p.launched

ClaimBase ==
    IF ~user_mode THEN <<"/", "usr", "share", "fonts">>
    ELSE IF env.xdg # NotSet THEN env.xdg \o <<"fonts">>
    ELSE IF env.home # NotSet THEN env.home \o <<".local", "share", "fonts">>
    ELSE <<".local", "share", "fonts">>
\* The kind the claim's sections on detection give to the source.
ClaimKind ==
    IF KnownExt(srcName)
    THEN (IF to_lowercase(extension(srcName)) = <<"o", "t", "f">> THEN "Otf" ELSE "Ttf")
    ELSE (IF SubSeq(srcData, 1, 4) = OTTO THEN "Otf" ELSE "Ttf")

\* C12: on every run that ends with exit code 0 the installed file is at
\* <base>/<subdir>/<resolved name> with mode 0644, subdir OTF for OpenType
\* and TTF for TrueType, base /usr/share/fonts in system mode and in user
\* mode $XDG_DATA_HOME/fonts, else $HOME/.local/share/fonts, else
\* .local/share/fonts; a.ttf in user mode with XDG_DATA_HOME=/tmp/x and no
\* existing file ends at /tmp/x/fonts/TTF/a.ttf.
C12_InstalledWhereSpecified ==
    \A k \in Procs :
        (Ended(procs[k]) /\ procs[k].exit = 0) =>
            \E j \in k..Len(procs) :
                /\ Installed(procs[j])
                /\ dirExists
                /\ procs[j].dir = ClaimBase \o <<IF ClaimKind = "Otf" THEN "OTF" ELSE "TTF">>
                /\ (user_mode /\ env.xdg = <<"/", "tmp", "x">>
                      /\ srcName = <<"a", ".", "t", "t", "f">> /\ fs0.files = << >>)
                      => /\ procs[j].dir = <<"/", "tmp", "x", "fonts", "TTF">>
                         /\ procs[j].dest = <<"a", ".", "t", "t", "f">>

\* C12 witness: scenario A, a.ttf installed in user mode under /tmp/x.
C12_Witness ==
    /\ user_mode
    /\ env.xdg = <<"/", "tmp", "x">>
    /\ fs0.files = << >>
    /\ Ended(procs[1]) /\ procs[1].exit = 0
    /\ procs[1].dir = <<"/", "tmp", "x", "fonts", "TTF">>
    /\ procs[1].dest = <<"a", ".", "t", "t", "f">>
    /\ files[procs[1].dest].mode = Mode644

\* C13: the placer attempts the rename first and copies only when the
\* rename failed with EXDEV; any other rename failure, permission denied
\* included, is returned unchanged with no copy attempted, and the step
\* leaves the source in place and no file at the destination.
C13_CopyOnlyAfterExdev ==
    /\ [](\A k \in Procs :
            LET p == procs[k] IN
            /\ (p.pc \in {"copy", "remove"} \/ p.via = "copy") => p.rerr.raw = EXDEV
            /\ p.via = "rename" => p.rerr = NoErr
            /\ (p.rerr # NoErr /\ p.rerr.raw # EXDEV) =>
                  /\ p.err = p.rerr
                  /\ p.via = "none"
                  /\ p.pc \notin {"copy", "remove", "chmod", "print", "ok"})
    /\ [][At("move") =>
            LET q == procs'[Active] IN
            (q.rerr # NoErr /\ q.rerr.raw # EXDEV) =>
                /\ q.pc = "failed"
                /\ srcPresent' /\ files' = files
                /\ q.dest \notin DOMAIN files']_vars

\* C13 witness: the rename was denied; the process failed with that error,
\* the source is in place and nothing is at the destination.
C13_Witness ==
    /\ procs[1].rerr = OsError(EACCES)
    /\ procs[1].err = OsError(EACCES)
    /\ procs[1].pc = "failed"
    /\ srcPresent
    /\ procs[1].dest \notin DOMAIN files

\* set_permissions644 of the process returned an error: the only error a
\* process can have after its move succeeded.
ChmodFailed(p) == p.via # "none" /\ p.err # NoErr
\* The font is, complete, at the destination of the process.
FontAtDest(p) ==
    /\ p.dest \in DOMAIN files
    /\ files[p.dest].data = "font"
    /\ ~srcPresent

\* C14: permission normalization is attempted only after the move
\* succeeded and changes only the mode of the destination; when it fails
\* the file stays at the destination, no confirmation line is printed, no
\* cache refresh runs and every process of the invocation ends with a
\* non-zero exit code.
C14_ChmodAfterMove ==
    /\ [](\A k \in Procs :
            LET p == procs[k] IN
            /\ p.pc = "chmod" => (p.via # "none" /\ FontAtDest(p))
            /\ (p.pc \in {"print", "ok"} \/ p.cache # "none") =>
                  (p.err = NoErr /\ files[p.dest].mode = Mode644)
            /\ ChmodFailed(p) =>
                  /\ FontAtDest(p)
                  /\ p.cache = "none" /\ cacheRuns = 0
                  /\ p.pc \notin {"print", "ok"}
                  /\ \A j \in Procs : Ended(procs[j]) => procs[j].exit # 0)
    /\ [][At("chmod") =>
            /\ DOMAIN files' = DOMAIN files
            /\ \A n \in DOMAIN files :
                  /\ files'[n].data = files[n].data
                  /\ n # Cur.dest => files'[n] = files[n]
            /\ UNCHANGED <<srcPresent, dirExists, cacheRuns>>]_vars

\* C14 witness: chmod failed with EPERM in system mode after the move; the
\* elevated process found no source, both ended with 1 and the file is at
\* the destination with the mode it had.
C14_Witness ==
    /\ Len(procs) = 2
    /\ ChmodFailed(procs[1])
    /\ procs[1].err = OsError(EPERM)
    /\ Ended(procs[1]) /\ procs[1].exit = 1
    /\ Ended(procs[2]) /\ procs[2].exit = 1
    /\ FontAtDest(procs[1])
    /\ files[procs[1].dest].mode = Mode600

\* C15: every invocation terminates: the suffix search of each process
\* leaves the loop, after at most as many candidates as there are files,
\* and the original process eventually ends with an exit code, with at most
\* one elevated re-execution.
C15_Terminates ==
    /\ <>(Active = 0 /\ Ended(procs[1]) /\ procs[1].exit \in {0, 1, 2, PanicCode})
    /\ \A k \in 1..2 :
          (Len(procs) >= k /\ procs[k].pc = "probe")
              ~> (Len(procs) >= k /\ procs[k].pc # "probe")
    /\ [](/\ Len(procs) <= 2
          /\ \A k \in Procs :
                procs[k].pc = "probe" => procs[k].i <= Cardinality(DOMAIN files))

\* C15 witness: all processes have ended, the elevated one after a suffix
\* search that went through every pre-existing candidate.
C15_Witness ==
    /\ Active = 0
    /\ Len(procs) = 2
    /\ procs[2].i = MaxColl + 1
    /\ Ended(procs[1]) /\ Ended(procs[2])

\* detect_kind of the process has returned.
Detected(p) == p.kind # "none" \/ DetectFailed(p)
\* The kind the claim gives to a known extension.
ExtKind(n) ==
    IF to_lowercase(extension(n)) = <<"o", "t", "f">> THEN "Otf" ELSE "Ttf"

Magic == SubSeq(srcData, 1, IF Len(srcData) < 4 THEN Len(srcData) ELSE 4)
\* The error came from the operating system while opening or reading.
OsFailure(e) == e \in {OsError(EACCES), OsError(EIO)}

\* C17: for a source with an absent or unrecognized extension the result
\* of detection is decided by the first 4 bytes: OTTO gives OpenType;
\* 00 01 00 00, "true" and "ttcf" give TrueType; any other 4 bytes fail with
\* the invalid-data error; fewer than 4 bytes fail with an I/O error
\* (unexpected end of file); the only other results are the errors of
\* opening or reading.  A kind or a failure results, never both, and the
\* detection step changes neither the source nor the target directory.
C17_SniffDecides ==
    /\ [](( RunsPipeline /\ ~KnownExt(srcName)) =>
            \A k \in Procs :
                LET p == procs[k] IN
                /\ p.kind = "Otf" => (p.read /\ Magic = OTTO)
                /\ p.kind = "Ttf" => (p.read /\ Magic \in {TrueType1, TrueTag, TtcfTag})
                /\ DetectFailed(p) =>
                      \/ p.err = CustomError("InvalidData") /\ p.read
                            /\ Len(srcData) >= 4 /\ ~KnownMagic(srcData)
                      \/ p.err = CustomError("UnexpectedEof") /\ p.read
                            /\ Len(srcData) < 4
                      \/ OsFailure(p.err)
                /\ Detected(p) =>
                      /\ Magic = OTTO =>
                            (p.kind = "Otf" \/ (DetectFailed(p) /\ OsFailure(p.err)))
                      /\ Magic \in {TrueType1, TrueTag, TtcfTag} =>
                            (p.kind = "Ttf" \/ (DetectFailed(p) /\ OsFailure(p.err)))
                      /\ ~KnownMagic(srcData) => DetectFailed(p))
    /\ [][At("detect") =>
            LET q == procs'[Active] IN
            /\ ~(q.kind # "none" /\ q.err # NoErr)
            /\ q.pc # "killed" => (q.kind # "none" \/ q.err # NoErr)
            /\ UNCHANGED <<srcData, srcMode, srcPresent, files, dirExists>>]_vars

\* C17 witness: the file a, without extension, begins with "true" and was
\* detected as TrueType by reading it.
C17_Witness ==
    /\ srcName = <<"a">>
    /\ Magic = TrueTag
    /\ procs[1].pc = "mkdir"
    /\ procs[1].kind = "Ttf"
    /\ procs[1].read

\* The names of the target directory that hold the complete font.
FontCopies == {n \in DOMAIN files : files[n].data = "font"}
\* The names of the target directory that were not there at the start.
NewFiles == DOMAIN files \ DOMAIN fs0.files

\* C18 as stated: one invocation, the unprivileged attempt and its elevated
\* retry together, creates at most one new file in the target directory,
\* and the font is never at two destination paths.
C18_AtMostOneNewFile ==
    /\ Cardinality(NewFiles) <= 1
    /\ Cardinality(FontCopies) <= 1

\* C19 as stated: whenever the elevation tool is launched the source file
\* still exists at its original path and no copy of it is in the target
\* directory.
C19_LaunchFindsFontUntouched ==
    \A k \in Procs :
        (procs[k].launched /\ procs[k].pc = "wait") =>
            /\ fs0.src => srcPresent
            /\ FontCopies = {}
            /\ NewFiles = {}

\* C20: no failure path loses the font: in every state a complete copy is
\* at the source path or in the target directory, and the source is
\* removed only by a step after which the complete font is at the
\* destination of the process that removed it.
C20_FontNeverLost ==
    /\ [](fs0.src => (srcPresent \/ FontCopies # {}))
    /\ [][(srcPresent /\ ~srcPresent') =>
            /\ Cur.dest \in DOMAIN files'
            /\ files'[Cur.dest].data = "font"]_vars

\* C20 witness: the elevated process is between the copy and the delete of
\* the fallback; the font is at the source and at the destination.
C20_Witness ==
    /\ Len(procs) = 2
    /\ procs[2].pc = "remove"
    /\ srcPresent
    /\ procs[2].dest \in FontCopies

====
